---- MODULE Spec2Model ----
(***************************************************************************)
(* Model of props.c (btrfs-progs): the property handlers prop_read_only,   *)
(* prop_compression and prop_allocation_hint, and the device resolver      *)
(* btrfs_find_devid_and_mnt.                                               *)
(*                                                                         *)
(* A C string is a TLA+ string; a "const char *value" that may be NULL is  *)
(* a sequence of at most one string (NULL == <<>>).  What a handler prints *)
(* on stdout is the sequence of its lines.  Every handler is an operator   *)
(* from its arguments, the stored state it reads and the outcome of the    *)
(* one call that fails (if any) to the record of what it returned, printed *)
(* and changed; one action per handler and mode applies it.  Because every *)
(* failing call ends the handler, at most one injected fault per call      *)
(* covers every combination of failures.                                   *)
(***************************************************************************)
EXTENDS Integers, Sequences, FiniteSets, TLC

VARIABLES subvols, xattrs, devs, last

vars == <<subvols, xattrs, devs, last>>

\* ------------------------------------------------------------------ bounds
\* highest device id a filesystem of the model assigns (fi_args.max_id)
MaxDevid == 2
\* bits of the stored device type value drawn at Init
TypeBits == 4

\* ------------------------------------------------------------ C constants
EPERM == 1
ENOENT == 2
EIO == 5
ENOMEM == 12
ENODEV == 19
EINVAL == 22
EROFS == 30
ERANGE == 34
\* ENOATTR is ENODATA (props.c:38-40)
ENOATTR == 61

NULL == <<>>

\* the characters of a C string: the byte c, from 1 to UCHAR_MAX, is the
\* character at position c of ByteChars (the apostrophe behind position
\* UCHAR_MAX only closes the grave accent of position 96 and is no byte)
UCHAR_MAX == 255
ByteChars == "\t\n\f\r !\"#$%&'()*+,-./0123456789:;<=>?@ABCDEFGHIJKLMNOPQRSTUVWXYZ[\\]^_`abcdefghijklmnopqrstuvwxyz{|}~ ¡¢£¤¥¦§¨©ª«¬­®¯°±²³´µ¶·¸¹º»¼½¾¿ÀÁÂÃÄÅÆÇÈÉÊËÌÍÎÏÐÑÒÓÔÕÖ×ØÙÚÛÜÝÞßàáâãäåæçèéêëìíîïðñòóôõö÷øùúûüýþÿ'"
Byte(c) == SubSeq(ByteChars, c, c)

XATTR_BTRFS_PREFIX == "btrfs."

RECURSIVE Pow2(_)
Pow2(n) == IF n = 0 THEN 1 ELSE 2 * Pow2(n - 1)

\* ------------------------------------------------------- the call record
\* What the last property request did.  prev_set is the value of the
\* immediately preceding request when that was a successful set of the
\* same property on the same object (else NULL); leaked are the resources
\* acquired and not released at return; calls are the backend calls issued;
\* fault is the failure injected into the request;
\* xerr is the errno of the attribute call that failed (0: none did); rret,
\* devid and queried are the resolver's result and the ids it queried;
\* before is the resolved device's stored type when the request began.
NoCall ==
  [prop |-> "none", object |-> "", value |-> NULL, ret |-> 0, out |-> <<>>,
   prev_set |-> NULL, leaked |-> {}, calls |-> <<>>,
   fault |-> [at |-> "none"], xerr |-> 0, rret |-> 0, devid |-> -1,
   queried |-> <<>>, before |-> 0]

PrevSet(prop, object) ==
  IF last.prop = prop /\ last.object = object /\ last.value # NULL /\ last.ret = 0
  THEN last.value ELSE NULL

\* ================================================================== ro
Subvolumes == {"/mnt/a", "/mnt/b"}
\* a path that is no subvolume: the library fails on it
RoObjects == Subvolumes \cup {"/mnt/file"}
RoValues == {"true", "false", "True", "1", ""}
\* errno of a failing library call; 0: the call succeeds
RoFaults == {0, EPERM, EROFS}

\* btrfs_util_get_subvolume_read_only: the error (an errno, 0 for none) and
\* the flag read
btrfs_util_get_subvolume_read_only(store, object, fault) ==
  IF object \notin DOMAIN store THEN [err |-> ENOENT, read_only |-> FALSE]
  ELSE IF fault # 0 THEN [err |-> fault, read_only |-> FALSE]
  ELSE [err |-> 0, read_only |-> store[object]]

\* btrfs_util_set_subvolume_read_only: the error and the store after it
btrfs_util_set_subvolume_read_only(store, object, read_only, fault) ==
  IF object \notin DOMAIN store THEN [err |-> ENOENT, store |-> store]
  ELSE IF fault # 0 THEN [err |-> fault, store |-> store]
  ELSE [err |-> 0, store |-> [store EXCEPT ![object] = read_only]]

\* RoLine with the two words exchanged
RoLineSwapped(read_only) == "ro=" \o (IF read_only THEN "false" ELSE "true")

\* "ro=%s\n" of read_only ? "true" : "false"
RoLine(read_only) == "ro=" \o (IF read_only THEN "true" ELSE "false")

\* the strings prop_read_only accepts as a value
RoAccepted(s) == s = "true" \/ s = "false"

prop_read_only(store, object, value, fault) ==
  IF value # NULL THEN
    IF ~RoAccepted(value[1])
    THEN [ret |-> -EINVAL, out |-> <<>>, store |-> store, calls |-> <<>>]
    ELSE LET read_only == (value[1] = "true")
             r == btrfs_util_set_subvolume_read_only(store, object, read_only, fault)
         IN IF r.err # 0
            THEN [ret |-> -r.err, out |-> <<>>, store |-> r.store,
                  calls |-> <<"set_subvolume_read_only">>]
            ELSE [ret |-> 0, out |-> <<>>, store |-> r.store,
                  calls |-> <<"set_subvolume_read_only">>]
  ELSE
    LET r == btrfs_util_get_subvolume_read_only(store, object, fault)
    IN IF r.err # 0
       THEN [ret |-> -r.err, out |-> <<>>, store |-> store,
             calls |-> <<"get_subvolume_read_only">>]
       ELSE [ret |-> 0, out |-> <<RoLine(r.read_only)>>, store |-> store,
             calls |-> <<"get_subvolume_read_only">>]

RoRequest(object, value, fault) ==
  \E r \in {prop_read_only(subvols, object, value, fault)} :
     /\ subvols' = r.store
     /\ last' = [NoCall EXCEPT !.prop = "ro", !.object = object, !.value = value,
                               !.fault = [at |-> "lib", errno |-> fault],
                               !.ret = r.ret, !.out = r.out, !.calls = r.calls,
                               !.prev_set = IF value = NULL THEN PrevSet("ro", object)
                                            ELSE NULL]
     /\ UNCHANGED <<xattrs, devs>>

RoGet == \E object \in RoObjects, fault \in RoFaults :
           RoRequest(object, NULL, fault)

RoSet == \E object \in RoObjects, s \in RoValues, fault \in RoFaults :
           RoRequest(object, <<s>>, fault)

\* ========================================================== compression
Files == {"/mnt/F", "/mnt/D"}
\* a path that does not exist: the open fails on it
CompObjects == Files \cup {"/mnt/nofile"}
Codecs == {"zlib", "lzo", "zstd"}
CompValues == Codecs \cup {"no", "none", "", "bogus"}
\* the call that fails, and its errno; at = "none": no call fails
CompFaults ==
  {[at |-> "none", errno |-> 0], [at |-> "open", errno |-> EPERM],
   [at |-> "malloc_name", errno |-> ENOMEM], [at |-> "malloc_buf", errno |-> ENOMEM]}
  \cup [at : {"xattr", "read"}, errno : {EIO, ENOATTR, ERANGE}]
  \cup [at : {"replaced"}, errno : {0}, by : Codecs]

NoXattrs == [n \in {} |-> ""]

\* open_file_or_dir3: the descriptor (-1 on failure) and errno
open_file_or_dir3(files, object, fault) ==
  IF object \notin DOMAIN files THEN [fd |-> -1, errno |-> ENOENT]
  ELSE IF fault.at = "open" THEN [fd |-> -1, errno |-> fault.errno]
  ELSE [fd |-> 3, errno |-> 0]

\* xattr_name: the prefix followed by the property name (props.c:118-125)
XattrName(name) == XATTR_BTRFS_PREFIX \o name

\* the value prop_compression writes for the value given (props.c:128-129)
CompStored(s) == IF s = "no" \/ s = "none" THEN "" ELSE s

\* fsetxattr(fd, name, value, size, 0) on a btrfs inode: a property
\* attribute written with size 0 is removed, a codec is stored, anything
\* else is refused with EINVAL.  sret is the call's result.
fsetxattr(attrs, xname, val, size, fault) ==
  IF fault.at = "xattr" THEN [sret |-> -1, errno |-> fault.errno, attrs |-> attrs]
  ELSE IF size = 0
    THEN [sret |-> 0, errno |-> 0,
          attrs |-> [n \in DOMAIN attrs \ {xname} |-> attrs[n]]]
  ELSE IF SubSeq(val, 1, size) \notin Codecs
    THEN [sret |-> -1, errno |-> EINVAL, attrs |-> attrs]
  ELSE [sret |-> 0, errno |-> 0,
        attrs |-> [n \in DOMAIN attrs \cup {xname} |->
                     IF n = xname THEN SubSeq(val, 1, size) ELSE attrs[n]]]

\* fgetxattr(fd, name, buf, size): with size 0 the stored length; else the
\* value copied into buf, ERANGE when it does not fit
fgetxattr(attrs, xname, size, fault, phase) ==
  IF fault.at = phase THEN [sret |-> -1, errno |-> fault.errno, buf |-> ""]
  ELSE IF xname \notin DOMAIN attrs THEN [sret |-> -1, errno |-> ENOATTR, buf |-> ""]
  ELSE IF size = 0 THEN [sret |-> Len(attrs[xname]), errno |-> 0, buf |-> ""]
  ELSE IF Len(attrs[xname]) > size THEN [sret |-> -1, errno |-> ERANGE, buf |-> ""]
  ELSE [sret |-> Len(attrs[xname]), errno |-> 0, buf |-> attrs[xname]]

\* another process replaces the attribute between the two fgetxattr calls
\* of a get (fault.at = "replaced"): the files as the second call finds them
ConcurrentSet(files, object, xname, fault) ==
  IF fault.at = "replaced"
  THEN [files EXCEPT ![object] =
          [n \in DOMAIN files[object] \cup {xname} |->
             IF n = xname THEN fault.by ELSE files[object][n]]]
  ELSE files

\* what a block of n bytes from malloc may hold, as far as a %s prints it:
\* the bytes up to the first NUL, each any byte but NUL
HeapBytes == {Byte(c) : c \in 1..UCHAR_MAX}
RECURSIVE Uninitialised(_)
Uninitialised(n) ==
  IF n = 0 THEN {""}
  ELSE {""} \cup {b \o t : b \in HeapBytes, t \in Uninitialised(n - 1)}

\* "compression=%.*s\n" with precision len (props.c:157).  buf holds the
\* bytes the second fgetxattr copied and, behind them, what malloc left
\* there (heap: those bytes up to their first NUL); at most len bytes are
\* printed
CompLine(len, buf, heap) ==
  "compression=" \o SubSeq(buf \o heap, 1,
                           IF len < Len(buf \o heap) THEN len ELSE Len(buf \o heap))

\* the out: label of prop_compression (props.c:161-167): both buffers are
\* freed and the descriptor is closed when it was opened
CompOut(ret, out, files, acquired, calls, xerr) ==
  [ret |-> ret, out |-> out, files |-> files, calls |-> calls, xerr |-> xerr,
   leaked |-> (acquired \ {"xattr_name", "buf"}) \ {"fd"}]

\* whether the failed attribute call is reported as success (props.c:136-140)
CompIgnored(ret, value) == ret = -ENOATTR

prop_compression(files, object, name, value, fault, heap) ==
  LET o == open_file_or_dir3(files, object, fault)
  IN IF o.fd = -1 THEN CompOut(-o.errno, <<>>, files, {}, <<>>, 0)
     ELSE IF fault.at = "malloc_name" THEN CompOut(-ENOMEM, <<>>, files, {"fd"}, <<>>, 0)
     ELSE
       LET xattr_name == XattrName(name)
           acq == {"fd", "xattr_name"}
       IN IF value # NULL THEN
            LET v == CompStored(value[1])
                w == fsetxattr(files[object], xattr_name, v, Len(v), fault)
                fs == [files EXCEPT ![object] = w.attrs]
            IN IF w.sret < 0
               THEN CompOut(IF CompIgnored(-w.errno, value) THEN 0 ELSE -w.errno,
                            <<>>, fs, acq, <<"fsetxattr">>, w.errno)
               ELSE CompOut(0, <<>>, fs, acq, <<"fsetxattr">>, 0)
          ELSE
            LET p == fgetxattr(files[object], xattr_name, 0, fault, "xattr")
            IN IF p.sret < 0
               THEN CompOut(IF CompIgnored(-p.errno, value) THEN 0 ELSE -p.errno,
                            <<>>, files, acq, <<"fgetxattr">>, p.errno)
               ELSE IF fault.at = "malloc_buf"
               THEN CompOut(-ENOMEM, <<>>, files, acq, <<"fgetxattr">>, 0)
               ELSE
                 LET len == p.sret
                     fs == ConcurrentSet(files, object, xattr_name, fault)
                     g == fgetxattr(fs[object], xattr_name, len, fault, "read")
                 IN IF g.sret < 0
                    THEN CompOut(-g.errno, <<>>, fs, acq \cup {"buf"},
                                 <<"fgetxattr", "fgetxattr">>, g.errno)
                    ELSE CompOut(0, <<CompLine(len, g.buf, heap)>>, fs,
                                 acq \cup {"buf"}, <<"fgetxattr", "fgetxattr">>, 0)

CompRequest(object, value, fault, heap) ==
  \E r \in {prop_compression(xattrs, object, "compression", value, fault, heap)} :
     /\ xattrs' = r.files
     /\ last' = [NoCall EXCEPT !.prop = "compression", !.object = object,
                               !.value = value, !.ret = r.ret, !.out = r.out,
                               !.calls = r.calls, !.leaked = r.leaked,
                               !.xerr = r.xerr, !.fault = fault,
                               !.prev_set = IF value = NULL
                                            THEN PrevSet("compression", object)
                                            ELSE NULL]
     /\ UNCHANGED <<subvols, devs>>

\* the number of bytes of buf = malloc(len) that the second fgetxattr of a
\* get leaves unwritten: those by which the value it finds is shorter than
\* the one the probe measured
Unwritten(files, object, xname, fault) ==
  IF /\ object \in DOMAIN files /\ xname \in DOMAIN files[object]
     /\ fault.at = "replaced" /\ Len(fault.by) < Len(files[object][xname])
  THEN Len(files[object][xname]) - Len(fault.by)
  ELSE 0

CompGet == \E object \in CompObjects, fault \in CompFaults :
             \E heap \in Uninitialised(Unwritten(xattrs, object,
                                                   XattrName("compression"), fault)) :
               CompRequest(object, NULL, fault, heap)

\* a set allocates no buffer, and nothing replaces the attribute during it
CompSet == \E object \in CompObjects, s \in CompValues,
                fault \in {f \in CompFaults : f.at # "replaced"} :
             CompRequest(object, <<s>>, fault, "")

\* ===================================================== device resolver
\* device nodes and their kernel device numbers (st_rdev): sda is 8:0,
\* sdb 8:16, sdc 8:32, md0 9:0; /dev/block/8:0 is a second name of sda
Nodes == {"/dev/sda", "/dev/sdb", "/dev/sdc", "/dev/md0", "/dev/block/8:0"}
\* the paths a filesystem of the model records for its devices
DevPaths == {"/dev/sda", "/dev/sdb", "/dev/md0"}
\* the device paths a get names, and those a set names
HintObjects == {"/dev/block/8:0", "/dev/sdb", "/dev/md0"}
HintSetObjects == {"/dev/block/8:0", "/dev/md0"}

Rdev(path) ==
  CASE path = "/dev/sda" -> 8 * 256 + 0
    [] path = "/dev/block/8:0" -> 8 * 256 + 0
    [] path = "/dev/sdb" -> 8 * 256 + 16
    [] path = "/dev/sdc" -> 8 * 256 + 32
    [] path = "/dev/md0" -> 9 * 256 + 0

\* major() and minor() of <sys/sysmacros.h> on a device number below 2^31
major(dev) == (dev \div 256) % 4096
minor(dev) == (dev % 256) + 256 * (dev \div 1048576)

\* the call that fails; id is the device id of a failing per-device call.
\* ResolverFaults are the calls of btrfs_find_devid_and_mnt, HintFaults
\* those of prop_allocation_hint itself ("none": no call fails).
ResolverFaults ==
  [at : {"mount", "open", "stat", "fsinfo_eperm", "fsinfo"}, id : {0}]
  \cup [at : {"query", "cstat"}, id : 0..MaxDevid]
HintFaults == [at : {"none", "open2", "read", "write"}, id : {0}]

\* get_btrfs_mount: 0, or a negative errno
get_btrfs_mount(devpath, fault) == IF fault.at = "mount" THEN -EINVAL ELSE 0

\* btrfs_open_dir: a descriptor, or a negative value
btrfs_open_dir(fault, at) == IF fault.at = at THEN -1 ELSE 3

\* stat(path): 0 and st_rdev, or -1 (the empty path names nothing)
stat(path, failing) ==
  IF failing \/ path \notin Nodes THEN [ret |-> -1, st_rdev |-> 0]
  ELSE [ret |-> 0, st_rdev |-> Rdev(path)]

\* BTRFS_IOC_FS_INFO: the highest device id the filesystem has assigned
FsInfo(ds, fault) ==
  IF fault.at = "fsinfo_eperm" THEN [ret |-> -1, errno |-> EPERM, max_id |-> 0]
  ELSE IF fault.at = "fsinfo" THEN [ret |-> -1, errno |-> EIO, max_id |-> 0]
  ELSE [ret |-> 0, errno |-> 0,
        max_id |-> CHOOSE m \in DOMAIN ds :
                     /\ ds[m].kind # "nodev"
                     /\ \A j \in DOMAIN ds : ds[j].kind # "nodev" => j <= m]

\* get_device_info(fd, i, &dev_info) after the memset: -ENODEV for an id
\* the filesystem does not have; for a missing device 0 and an empty path
\* (dev_info.path is a byte array inside the structure, left all zero)
get_device_info(ds, i, fault) ==
  IF ds[i].kind = "nodev" THEN [ret |-> -ENODEV, devid |-> 0, path |-> ""]
  ELSE IF fault.at = "query" /\ fault.id = i THEN [ret |-> -EIO, devid |-> 0, path |-> ""]
  ELSE [ret |-> 0, devid |-> i,
        path |-> IF ds[i].kind = "missing" THEN "" ELSE ds[i].path]

\* !dev_info.path (props.c:214): path is an array member of dev_info, so
\* the expression tests the array's address, which is never null
DevInfoPathIsNull(di) == FALSE

\* a return of the resolver: what it returns and what it has acquired and
\* not released
ResolverReturn(ret, devid, queried, acquired) ==
  [ret |-> ret, devid |-> devid, queried |-> queried, leaked |-> acquired]

\* the out: label of the resolver (props.c:234-236): the descriptor is
\* closed before the return
ResolverOut(ret, devid, queried, acquired) ==
  ResolverReturn(ret, devid, queried, acquired \ {"fd"})

\* the comparison of the device numbers (props.c:224-225)
SameDevice(a, b) == major(a) = major(b) /\ minor(a) = minor(b)

\* the loop over the ids i..max_id (props.c:202-232)
RECURSIVE ScanDevices(_, _, _, _, _, _)
ScanDevices(ds, stdevpath, max_id, i, queried, fault) ==
  IF i > max_id THEN ResolverOut(-12, -1, queried, {"fd"})
  ELSE
    LET di == get_device_info(ds, i, fault)
        q == Append(queried, i)
    IN IF di.ret = -ENODEV THEN ScanDevices(ds, stdevpath, max_id, i + 1, q, fault)
       ELSE IF di.ret # 0 THEN ResolverOut(di.ret, -1, q, {"fd"})
       ELSE IF DevInfoPathIsNull(di)
         THEN ScanDevices(ds, stdevpath, max_id, i + 1, q, fault)
       ELSE
         LET st == stat(di.path, fault.at = "cstat" /\ fault.id = i)
         IN IF st.ret # 0 THEN ResolverOut(st.ret, -1, q, {"fd"})
            ELSE IF SameDevice(st.st_rdev, stdevpath)
              THEN ResolverOut(0, di.devid, q, {"fd"})
            ELSE ScanDevices(ds, stdevpath, max_id, i + 1, q, fault)

btrfs_find_devid_and_mnt(ds, devpath, fault) ==
  LET m == get_btrfs_mount(devpath, fault)
  IN IF m # 0 THEN ResolverReturn(m, -1, <<>>, {})
     ELSE
       LET fd == btrfs_open_dir(fault, "open")
       IN IF fd < 0 THEN ResolverReturn(fd, -1, <<>>, {})
          ELSE
            LET sd == stat(devpath, fault.at = "stat")
            IN IF sd.ret # 0 THEN ResolverOut(sd.ret, -1, <<>>, {"fd"})
               ELSE
                 LET fi == FsInfo(ds, fault)
                 IN IF fi.ret < 0
                    THEN IF fi.errno = EPERM
                         THEN ResolverReturn(-fi.errno, -1, <<>>, {"fd"})
                         ELSE ResolverOut(-10, -1, <<>>, {"fd"})
                    ELSE ScanDevices(ds, sd.st_rdev, fi.max_id, 0, <<>>, fault)

\* ====================================================== allocation hint
\* kernel-shared/ctree.h: the allocation classes and the sub-mask of
\* dev_item.type that holds them
BTRFS_DEV_ALLOCATION_MASK_BIT_COUNT == 3
BTRFS_DEV_ALLOCATION_PREFERRED_DATA == 0
BTRFS_DEV_ALLOCATION_PREFERRED_METADATA == 1
BTRFS_DEV_ALLOCATION_METADATA_ONLY == 2
BTRFS_DEV_ALLOCATION_DATA_ONLY == 3
BTRFS_DEV_ALLOCATION_MASK == Pow2(BTRFS_DEV_ALLOCATION_MASK_BIT_COUNT) - 1

\* u64 / unsigned long long: 64 bits, held as LimbCount limbs of LimbBits
\* bits each, the least significant first
LimbBits == 16
LimbCount == 4
LimbBase == Pow2(LimbBits)
Limbs == 1..LimbCount

\* the u64 of a number below LimbBase, and the number of a u64 below 2^31
U64(n) == [k \in Limbs |-> IF k = 1 THEN n ELSE 0]
Value(x) == x[1] + LimbBase * (x[2] + LimbBase * (x[3] + LimbBase * x[4]))

ULLONG_MAX == [k \in Limbs |-> LimbBase - 1]

\* a & b on one limb
RECURSIVE LimbAnd(_, _)
LimbAnd(a, b) ==
  IF a = 0 \/ b = 0 THEN 0
  ELSE (a % 2) * (b % 2) + 2 * LimbAnd(a \div 2, b \div 2)

\* a & b, ~a and a | b on u64
BitAnd(a, b) == [k \in Limbs |-> LimbAnd(a[k], b[k])]
BitNot(a) == [k \in Limbs |-> LimbBase - 1 - a[k]]
BitOr(a, b) == [k \in Limbs |-> a[k] + b[k] - LimbAnd(a[k], b[k])]

\* x * m + c from limb k on, for m and c below LimbBase: the limbs of the
\* result modulo 2^64 and the carry out of the last limb
RECURSIVE MulAdd(_, _, _, _)
MulAdd(x, m, c, k) ==
  IF k > LimbCount THEN [v |-> <<>>, carry |-> c]
  ELSE LET t == x[k] * m + c
           r == MulAdd(x, m, t \div LimbBase, k + 1)
       IN [v |-> <<t % LimbBase>> \o r.v, carry |-> r.carry]

\* -x on u64: ~x + 1 modulo 2^64
Negate(x) == MulAdd(BitNot(x), 1, 1, 1).v

\* allocation_hint_description, without its {0, NULL} terminator
allocation_hint_description ==
  << [value |-> BTRFS_DEV_ALLOCATION_PREFERRED_METADATA, descr |-> "PREFERRED_METADATA"],
     [value |-> BTRFS_DEV_ALLOCATION_METADATA_ONLY, descr |-> "METADATA_ONLY"],
     [value |-> BTRFS_DEV_ALLOCATION_PREFERRED_DATA, descr |-> "PREFERRED_DATA"],
     [value |-> BTRFS_DEV_ALLOCATION_DATA_ONLY, descr |-> "DATA_ONLY"] >>

\* the index at which the loops of props.c:284-286 and 299-301 stop: the
\* first entry that matches, or the terminator's (Len + 1)
RECURSIVE FirstByValue(_, _)
FirstByValue(i, v) ==
  IF i > Len(allocation_hint_description) THEN i
  ELSE IF v = allocation_hint_description[i].value THEN i
  ELSE FirstByValue(i + 1, v)
RECURSIVE FirstByDescr(_, _)
FirstByDescr(i, s) ==
  IF i > Len(allocation_hint_description) THEN i
  ELSE IF s = allocation_hint_description[i].descr THEN i
  ELSE FirstByDescr(i + 1, s)

Digits == <<"0", "1", "2", "3", "4", "5", "6", "7", "8", "9">>
IsDigit(c) == \E d \in 1..10 : Digits[d] = c
DigitValue(c) == (CHOOSE d \in 1..10 : Digits[d] = c) - 1

\* %d and %llu of a non-negative number
RECURSIVE Decimal(_)
Decimal(n) == IF n < 10 THEN Digits[n + 1] ELSE Decimal(n \div 10) \o Digits[(n % 10) + 1]

\* the digits of s from position i on, accumulated as strtoull does: the
\* value so far modulo 2^64, the number of digits read, and whether the
\* number has passed ULLONG_MAX
RECURSIVE ScanDigits(_, _, _, _, _)
ScanDigits(s, i, acc, n, overflow) ==
  IF i > Len(s) \/ ~IsDigit(SubSeq(s, i, i))
  THEN [v |-> acc, n |-> n, overflow |-> overflow]
  ELSE LET next == MulAdd(acc, 10, DigitValue(SubSeq(s, i, i)), 1)
       IN IF next.carry # 0 THEN ScanDigits(s, i + 1, next.v, n + 1, TRUE)
          ELSE ScanDigits(s, i + 1, next.v, n + 1, overflow)

\* isspace in the C locale: blank, \t, \n, \v (byte 11), \f, \r
WhiteSpace == {" ", "\t", "\n", Byte(11), "\f", "\r"}

RECURSIVE SkipSpace(_, _)
SkipSpace(s, i) ==
  IF i <= Len(s) /\ SubSeq(s, i, i) \in WhiteSpace THEN SkipSpace(s, i + 1) ELSE i

\* the result of the conversion %llu, given the sign read and the digits d
\* scanned after it: without a digit nothing is converted; a number past
\* ULLONG_MAX is ULLONG_MAX whatever its sign; any other is negated modulo
\* 2^64 under a minus sign
ConvertLlu(sign, d) ==
  IF d.n = 0 THEN [n |-> 0, v |-> U64(0)]
  ELSE [n |-> 1,
        v |-> IF d.overflow THEN ULLONG_MAX
              ELSE IF sign = "-" THEN Negate(d.v) ELSE d.v]

\* sscanf(value, "%llu", &v): the number of items converted (EOF, -1, when
\* the input ends before the conversion starts) and v
sscanf_llu(s) ==
  LET i == SkipSpace(s, 1)
      sign == IF i <= Len(s) /\ SubSeq(s, i, i) \in {"+", "-"} THEN SubSeq(s, i, i) ELSE ""
  IN IF i > Len(s) THEN [n |-> -1, v |-> U64(0)]
     ELSE ConvertLlu(sign,
                     ScanDigits(s, IF sign = "" THEN i ELSE i + 1, U64(0), 0, FALSE))

\* BTRFS_IOC_DEV_PROPERTIES: with BTRFS_DEV_PROPERTY_READ the stored type
\* is returned; without it the fields selected (the type) are written
DevPropertiesRead(ds, devid, fault) ==
  IF fault.at = "read" THEN [ret |-> -1, type |-> 0]
  ELSE [ret |-> 0, type |-> ds[devid].type]
DevPropertiesWrite(ds, devid, type, fault) ==
  IF fault.at = "write" THEN [ret |-> -1, ds |-> ds]
  ELSE [ret |-> 0, ds |-> [ds EXCEPT ![devid].type = type]]

\* the line a get prints (props.c:283-294)
HintLine(devid, object, type) ==
  LET v == Value(BitAnd(U64(type), U64(BTRFS_DEV_ALLOCATION_MASK)))
      i == FirstByValue(1, v)
  IN "devid=" \o Decimal(devid) \o ", path=" \o object \o ": allocation_hint=" \o
     (IF i <= Len(allocation_hint_description)
      THEN allocation_hint_description[i].descr
      ELSE "unknown:" \o Decimal(v))

\* HintParse without the test of the bits outside the mask
HintParseNoMaskTest(s) ==
  LET i == FirstByDescr(1, s)
  IN IF i <= Len(allocation_hint_description)
     THEN [ok |-> TRUE, v |-> U64(allocation_hint_description[i].value)]
     ELSE LET p == sscanf_llu(s)
          IN IF p.n # 1 THEN [ok |-> FALSE, v |-> p.v] ELSE [ok |-> TRUE, v |-> p.v]

\* the value a set accepts (props.c:299-313): ok and the u64 v
HintParse(s) ==
  LET i == FirstByDescr(1, s)
  IN IF i <= Len(allocation_hint_description)
     THEN [ok |-> TRUE, v |-> U64(allocation_hint_description[i].value)]
     ELSE LET p == sscanf_llu(s)
          IN IF p.n # 1 THEN [ok |-> FALSE, v |-> p.v]
             ELSE IF BitAnd(p.v, BitNot(U64(BTRFS_DEV_ALLOCATION_MASK))) # U64(0)
               THEN [ok |-> FALSE, v |-> p.v]
             ELSE [ok |-> TRUE, v |-> p.v]

\* HintMerge without the read-modify-write: the new bits alone
HintMergeOverwrite(type, v) == Value(BitAnd(v, U64(BTRFS_DEV_ALLOCATION_MASK)))

\* the type a set writes (props.c:315-316), type being the stored type
\* read and v the u64 accepted
HintMerge(type, v) ==
  Value(BitOr(BitAnd(U64(type), BitNot(U64(BTRFS_DEV_ALLOCATION_MASK))),
              BitAnd(v, U64(BTRFS_DEV_ALLOCATION_MASK))))

\* the out: label of prop_allocation_hint (props.c:329-331)
HintOut(ret, out, ds, calls, r, before) ==
  [ret |-> ret, out |-> out, ds |-> ds, calls |-> calls, leaked |-> r.leaked,
   rret |-> r.ret, devid |-> r.devid, queried |-> r.queried, before |-> before]

\* prop_allocation_hint after the second ioctl's arguments are known
\* (props.c:315-328): p is the accepted value
HintWrite(ds, fault, r, props, p) ==
  IF ~p.ok THEN HintOut(-3, <<>>, ds, <<"read">>, r, props.type)
  ELSE LET w == DevPropertiesWrite(ds, r.devid, HintMerge(props.type, p.v), fault)
       IN HintOut(IF w.ret < 0 THEN -4 ELSE 0, <<>>, w.ds, <<"read", "write">>,
                  r, props.type)

\* prop_allocation_hint after the read request (props.c:275-313)
HintRead(ds, object, value, fault, r, props) ==
  IF props.ret < 0 THEN HintOut(-1, <<>>, ds, <<"read">>, r, 0)
  ELSE IF value = NULL
    THEN HintOut(0, <<HintLine(r.devid, object, props.type)>>, ds, <<"read">>,
                 r, props.type)
  ELSE HintWrite(ds, fault, r, props, HintParse(value[1]))

\* prop_allocation_hint after the resolver (props.c:264-274); the two
\* returns before the out: label release nothing of their own
HintResolved(ds, object, value, fault, r) ==
  IF r.ret # 0 THEN HintOut(-5, <<>>, ds, <<>>, r, 0)
  ELSE IF btrfs_open_dir(fault, "open2") < 0
    THEN HintOut(btrfs_open_dir(fault, "open2"), <<>>, ds, <<>>, r, 0)
  ELSE HintRead(ds, object, value, fault, r, DevPropertiesRead(ds, r.devid, fault))

prop_allocation_hint(ds, object, value, fault) ==
  HintResolved(ds, object, value, fault, btrfs_find_devid_and_mnt(ds, object, fault))

HintValues ==
  {"PREFERRED_METADATA", "METADATA_ONLY", "PREFERRED_DATA", "DATA_ONLY",
   "preferred_data", "5", "8", "3x", "x", "-1", "\t5", Byte(11) \o "2", "65536",
   "-18446744073709551615", "18446744073709551616"}

HintRequest(object, value, fault) ==
  \E r \in {prop_allocation_hint(devs, object, value, fault)} :
     /\ devs' = r.ds
     /\ last' = [NoCall EXCEPT !.prop = "allocation_hint", !.object = object,
                               !.value = value, !.ret = r.ret, !.out = r.out,
                               !.calls = r.calls, !.leaked = r.leaked,
                               !.rret = r.rret, !.devid = r.devid, !.fault = fault,
                               !.queried = r.queried, !.before = r.before,
                               !.prev_set = IF value = NULL
                                            THEN PrevSet("allocation_hint", object)
                                            ELSE NULL]
     /\ UNCHANGED <<subvols, xattrs>>

HintGet == \E object \in HintObjects, fault \in HintFaults :
             HintRequest(object, NULL, fault)

\* a get during which a call of the resolver fails
HintGetUnresolved == \E object \in HintObjects, fault \in ResolverFaults :
                       HintRequest(object, NULL, fault)

HintSet == \E object \in HintSetObjects, s \in HintValues, fault \in HintFaults :
             HintRequest(object, <<s>>, fault)

NoSubvols == [s \in {} |-> FALSE]
NoFiles == [f \in {} |-> 0]
NoDevs == [i \in 0..MaxDevid |-> [kind |-> "nodev", path |-> "", type |-> 0]]

InitRo ==
  /\ subvols \in [Subvolumes -> BOOLEAN]
  /\ xattrs = NoFiles
  /\ devs = NoDevs
  /\ last = NoCall

NextRo == RoGet \/ RoSet

SpecRo == InitRo /\ [][NextRo]_vars

\* a file's compression attribute is absent or holds a codec
InitComp ==
  /\ subvols = NoSubvols
  /\ xattrs \in [Files -> {NoXattrs} \cup
                            {[n \in {XattrName("compression")} |-> c] : c \in Codecs}]
  /\ devs = NoDevs
  /\ last = NoCall

NextComp == CompGet \/ CompSet

SpecComp == InitComp /\ [][NextComp]_vars

\* the device tables of a mounted filesystem: every id is absent, missing
\* or present under a path of its own, and some device is present
DevTables ==
  {d \in [0..MaxDevid -> [kind : {"nodev"}, path : {""}, type : {0}]
                         \cup [kind : {"missing"}, path : {""}, type : {0}]
                         \cup [kind : {"present"}, path : DevPaths, type : {0}]] :
     /\ \E i \in DOMAIN d : d[i].kind = "present"
     /\ \A i, j \in DOMAIN d :
          (i # j /\ d[i].kind = "present" /\ d[j].kind = "present")
            => d[i].path # d[j].path}

\* any device table, every stored type 0: the resolver's cases
InitResolve ==
  /\ subvols = NoSubvols
  /\ xattrs = NoFiles
  /\ devs \in DevTables
  /\ last = NoCall

NextResolve == HintGet \/ HintGetUnresolved

SpecResolve == InitResolve /\ [][NextResolve]_vars

\* two devices present at ids 1 and 2: the first with any stored type, the
\* second with type 0
InitHint ==
  /\ subvols = NoSubvols
  /\ xattrs = NoFiles
  /\ devs \in {[i \in 0..MaxDevid |->
                  IF i = 1 THEN [kind |-> "present", path |-> "/dev/sda", type |-> t]
                  ELSE IF i = 2 THEN [kind |-> "present", path |-> "/dev/sdb", type |-> 0]
                  ELSE [kind |-> "nodev", path |-> "", type |-> 0]] :
                t \in 0..(Pow2(TypeBits) - 1)}
  /\ last = NoCall

NextHint == HintGet \/ HintSet

SpecHint == InitHint /\ [][NextHint]_vars

\* ================================================================ claims
IsGet(prop) == last.prop = prop /\ last.value = NULL
IsSet(prop) == last.prop = prop /\ last.value # NULL

ClassNames == {"PREFERRED_METADATA", "METADATA_ONLY", "PREFERRED_DATA", "DATA_ONLY"}

\* the bits of a stored type outside the allocation sub-mask
OutsideMask(type) == type \div (BTRFS_DEV_ALLOCATION_MASK + 1)

\* C1: a get that succeeds right after a successful set of a class name c
\* on the same device path prints allocation_hint=c, and a successful set
\* of a class name leaves every bit of the device's stored type outside the
\* allocation sub-mask as it was before the set.
C1_HintRoundTrip ==
  /\ (IsGet("allocation_hint") /\ last.ret = 0 /\ last.prev_set # NULL
        /\ last.prev_set[1] \in ClassNames)
       => last.out = << "devid=" \o Decimal(last.devid) \o ", path=" \o last.object
                        \o ": allocation_hint=" \o last.prev_set[1] >>
  /\ (IsSet("allocation_hint") /\ last.ret = 0 /\ last.value[1] \in ClassNames)
       => OutsideMask(devs[last.devid].type) = OutsideMask(last.before)

C1_Witness ==
  /\ IsGet("allocation_hint") /\ last.ret = 0
  /\ last.prev_set = <<"METADATA_ONLY">>
  /\ last.out = <<"devid=1, path=/dev/block/8:0: allocation_hint=METADATA_ONLY">>
  /\ OutsideMask(devs[1].type) # 0

\* the strings that convert to a u64 with a bit outside the allocation
\* sub-mask: one of the limbs above the first, or the first limb's bits
\* above the mask, is not 0
IsOutOfMaskInteger(s) ==
  /\ s \notin ClassNames
  /\ \E p \in {sscanf_llu(s)} :
       /\ p.n = 1
       /\ (OutsideMask(p.v[1]) # 0 \/ \E k \in Limbs \ {1} : p.v[k] # 0)

\* C2: a set whose value is a raw integer with a bit outside the allocation
\* sub-mask never returns success and issues no property-write request;
\* when the device resolves and its properties are read, it returns the
\* invalid-value status (-3) and the stored type is as it was.
C2_OutOfMaskRejected ==
  (IsSet("allocation_hint") /\ IsOutOfMaskInteger(last.value[1]))
    => /\ \A i \in DOMAIN last.calls : last.calls[i] # "write"
       /\ (last.rret = 0 /\ last.fault.at \in {"none", "write"})
            => (last.ret = -3 /\ devs[last.devid].type = last.before)
       /\ last.ret # 0

C2_Witness ==
  /\ IsSet("allocation_hint") /\ last.value = <<"8">> /\ last.ret = -3
  /\ last.calls = <<"read">> /\ last.before = 13 /\ devs[last.devid].type = 13

\* the ids of the present devices whose device number is the object's
Matching(object) ==
  {i \in DOMAIN devs : devs[i].kind = "present" /\ Rdev(devs[i].path) = Rdev(object)}

NoResolverFault == last.prop = "allocation_hint" /\ last.fault \in HintFaults

\* C3: when no call of the resolver fails, the resolver returns NotFound
\* (-12) if no device of the filesystem has the object's device number, and
\* otherwise 0 and the id of the device that has it, whatever its position.
C3_ResolveByDeviceNumber ==
  NoResolverFault =>
    IF Matching(last.object) = {} THEN last.rret = -12
    ELSE last.rret = 0 /\ last.devid \in Matching(last.object)

\* C4: a get without a failing call, right after a set of "none" or "no"
\* that returned success, returns success and prints no line, the
\* attribute being absent.
C4_NoneClears ==
  (IsGet("compression") /\ last.fault.at = "none" /\ last.prev_set # NULL
     /\ last.prev_set[1] \in {"none", "no"})
    => /\ last.ret = 0 /\ last.out = <<>>
       /\ XattrName("compression") \notin DOMAIN xattrs[last.object]

\* C5: a get without a failing call, right after a set of a codec s that
\* returned success, prints exactly compression=s.
C5_CodecRoundTrip ==
  (IsGet("compression") /\ last.fault.at = "none" /\ last.prev_set # NULL
     /\ last.prev_set[1] \in Codecs)
    => last.ret = 0 /\ last.out = <<"compression=" \o last.prev_set[1]>>

\* C6: a get that succeeds right after a successful set of v in {true,
\* false} prints ro=v, and a set of any other string returns -EINVAL
\* without a call of the library.
C6_RoRoundTrip ==
  /\ (IsGet("ro") /\ last.ret = 0 /\ last.prev_set # NULL)
       => last.out = <<"ro=" \o last.prev_set[1]>>
  /\ (IsSet("ro") /\ last.value[1] \notin {"true", "false"})
       => (last.ret = -EINVAL /\ last.calls = <<>>)
  /\ (IsSet("ro") /\ last.ret = 0)
       => (last.value[1] \in {"true", "false"}
           /\ subvols[last.object] = (last.value[1] = "true"))

C6_Witness ==
  /\ IsGet("ro") /\ last.ret = 0 /\ last.prev_set = <<"false">>
  /\ last.out = <<"ro=false">>

\* C7: when a request returns, every handle it opened and every buffer it
\* allocated has been released.
C7_NothingLeaked == last.leaked = {}

\* the ids from 0 to n
RECURSIVE UpTo(_)
UpTo(n) == IF n < 0 THEN <<>> ELSE Append(UpTo(n - 1), n)

\* C8: in a filesystem with a missing device (an id that reports "no such
\* device" below max_id, or an entry without a path), when no call of the
\* resolver fails the scan skips the missing devices: it queries every id
\* up to the first device with the object's number and returns its id, or
\* queries every id up to max_id and returns NotFound.  A per-device query
\* that fails otherwise ends the scan with that failure.
C8_MissingSkipped ==
  /\ (NoResolverFault /\ \E i \in DOMAIN devs : devs[i].kind = "missing")
       => \/ \E m \in Matching(last.object) :
               /\ \A j \in Matching(last.object) : m <= j
               /\ last.rret = 0 /\ last.devid = m /\ last.queried = UpTo(m)
          \/ /\ Matching(last.object) = {}
             /\ last.rret = -12
             /\ last.queried = UpTo(FsInfo(devs, [at |-> "none", id |-> 0]).max_id)
  /\ (last.prop = "allocation_hint" /\ last.fault.at = "query"
        /\ last.queried # <<>> /\ last.queried[Len(last.queried)] = last.fault.id
        /\ devs[last.fault.id].kind # "nodev")
       => last.rret = -EIO

\* C9: when the filesystem-info query is denied (EPERM) the resolver
\* queries no device and returns -EPERM, and the request that called it
\* returns the permission failure to its caller.
C9_PermissionDenied ==
  (last.prop = "allocation_hint" /\ last.fault.at = "fsinfo_eperm")
    => /\ last.queried = <<>>
       /\ last.rret = -EPERM
       /\ last.ret = -EPERM

\* C10: a compression request whose attribute call fails returns the
\* negated errno of that call, except a get that finds the attribute
\* absent, which returns 0; a set whose attribute write fails never
\* returns 0.
C10_FailureReported ==
  (last.prop = "compression" /\ last.xerr # 0)
    => /\ (IsGet("compression") /\ last.xerr = ENOATTR /\ last.calls = <<"fgetxattr">>)
            => (last.ret = 0 /\ last.out = <<>>)
       /\ ~(IsGet("compression") /\ last.xerr = ENOATTR) => last.ret = -last.xerr
       /\ IsSet("compression") => last.ret # 0
====
